---- MODULE Spec2Model ----
(***************************************************************************)
(* Model of apitools' client generator front end:                          *)
(*   apitools/gen/gen_client_lib.py  (DescriptorGenerator, _ComputePaths,  *)
(*                                    _StandardQueryParametersSchema)      *)
(*   apitools/gen/gen_client.py      (the 'client' and 'proto' commands)   *)
(*                                                                         *)
(* Strings are sequences of one-character strings.  Python objects that    *)
(* are shared by reference (the discovery document, the ClientInfo tuple)  *)
(* are kept in variables of their own, next to a snapshot of the value     *)
(* that was handed in.                                                     *)
(***************************************************************************)
EXTENDS Naturals, Sequences, FiniteSets

VARIABLES
    pc,                 \* position of the running command
    command,            \* "client" or "proto"
    outcome,            \* "running", "ok", "exit128" or the uncaught exception
    failed_in,          \* the function the uncaught exception was raised in
    source_failure,     \* how the discovery source failed, "none" if it did not
    fetches,            \* number of times the discovery source was read
    discovery_doc,      \* the document object (self.__discovery_doc)
    doc_passed,         \* the value of the document when it was handed in
    schema_iter,        \* iteration order of discovery_doc['schemas']
    resource_iter,      \* iteration order of discovery_doc['resources']
    heap,               \* the ClientInfo tuples allocated so far
    info_passed,        \* the value of the ClientInfo when it was handed in
    self_client_info,   \* self.__client_info: index into heap (0: unset)
    registry_client_info, \* the ClientInfo the registries were built with
    use_proto2,         \* self.__use_proto2
    base_url,           \* self.__base_url
    base_path,          \* self.__base_path
    warned,             \* logging.warning was called by _ComputePaths
    message_registry,   \* schema ids registered in the MessageRegistry
    global_params,      \* descriptors given to AddGlobalParameters
    services,           \* resources registered in the ServiceRegistry
    registry_scopes,    \* ServiceRegistry.scopes
    idx,                \* loop index of the running for loop
    log,                \* registry operations performed, in order
    codegen,            \* "unset", "none" or "built": value of codegen in Run
    files,              \* output files opened for writing
    emitted,            \* emission entry points called
    run,                \* 1, or 2 when construction is being re-run
    first_log           \* the log of the first construction (re-run only)

vars == <<pc, command, outcome, failed_in, source_failure, fetches,
          discovery_doc, doc_passed, schema_iter, resource_iter, heap,
          info_passed, self_client_info, registry_client_info, use_proto2, base_url,
          base_path, warned, message_registry, global_params, services,
          registry_scopes, idx, log, codegen, files, emitted, run, first_log>>

----------------------------------------------------------------------------
(* Bounds *)

MaxSchemas == 2        \* number of schema ids a document may draw from
MaxResources == 2      \* number of resource names a document may draw from
MaxServicePath == 6    \* longest servicePath tried on _ComputePaths
MaxRootPath == 2       \* longest path part of rootUrl tried on _ComputePaths

----------------------------------------------------------------------------
(* Strings *)

\* package names and versions tried on _ComputePaths
Names == {<<"a">>, <<"b">>}
PathChars == {"a", "b", "/"}

Strings(chars, lo, hi) == UNION {[1..n -> chars] : n \in lo..hi}

StartsWith(s, p) == Len(s) >= Len(p) /\ SubSeq(s, 1, Len(p)) = p

EndsWith(s, p) ==
    Len(s) >= Len(p) /\ SubSeq(s, Len(s) - Len(p) + 1, Len(s)) = p

\* positions at which sub occurs in s
Occurrences(sub, s) ==
    {k \in 1..(Len(s) + 1) :
        k + Len(sub) - 1 <= Len(s) /\ SubSeq(s, k, k + Len(sub) - 1) = sub}

\* Python: sub in s
Contains(sub, s) == Occurrences(sub, s) # {}

Max(S) == CHOOSE x \in S : \A y \in S : y <= x
Min(S) == CHOOSE x \in S : \A y \in S : x <= y

\* Python: s.rpartition(sep), sep not empty
rpartition(s, sep) ==
    IF Occurrences(sep, s) = {}
    THEN << <<>>, <<>>, s >>
    ELSE LET k == Max(Occurrences(sep, s))
         IN  << SubSeq(s, 1, k - 1), sep, SubSeq(s, k + Len(sep), Len(s)) >>

\* Python: '/'.join((package, version, ''))
JoinSlash(package, version) == package \o <<"/">> \o version \o <<"/">>

----------------------------------------------------------------------------
(* urlparse.urljoin, for a base "h://n<path>" and a reference over          *)
(* PathChars (no scheme, query, fragment or dot segments can occur).        *)

Origin == <<"h", ":", "/", "/", "n">>

BasePathOf(base) == SubSeq(base, Len(Origin) + 1, Len(base))

\* the base path up to and including its last "/"
DirOf(path) ==
    IF Occurrences(<<"/">>, path) = {} THEN <<>>
    ELSE SubSeq(path, 1, Max(Occurrences(<<"/">>, path)))

urljoin(base, url) ==
    IF base = <<>> THEN url
    ELSE IF url = <<>> THEN base
    ELSE IF StartsWith(url, <<"/", "/">>)
    THEN LET rest == SubSeq(url, 3, Len(url))
             cut == IF Occurrences(<<"/">>, rest) = {} THEN Len(rest) + 1
                    ELSE Min(Occurrences(<<"/">>, rest))
             netloc == SubSeq(rest, 1, cut - 1)
             path == SubSeq(rest, cut, Len(rest))
         IN  IF netloc # <<>> THEN <<"h", ":", "/", "/">> \o netloc \o path
             ELSE IF path # <<>> THEN Origin \o path
             ELSE base
    ELSE IF url[1] = "/" THEN Origin \o url
    ELSE LET joined == DirOf(BasePathOf(base)) \o url
         IN  IF joined[1] = "/" THEN Origin \o joined
             ELSE Origin \o <<"/">> \o joined

FullPath(doc) == urljoin(doc.rootUrl, doc.servicePath)

\* _ComputePaths without the test for the component: rpartition alone
ComputePaths_NoCheck(package, version, doc) ==
    LET full_path == FullPath(doc)
        api_path_component == JoinSlash(package, version)
        parts == rpartition(full_path, api_path_component)
    IN  [base_url |-> parts[1] \o api_path_component, base_path |-> parts[3],
         warning |-> FALSE]

\* _ComputePaths splitting at the first occurrence (partition for rpartition)
ComputePaths_First(package, version, doc) ==
    LET full_path == FullPath(doc)
        api_path_component == JoinSlash(package, version)
    IN  IF ~Contains(api_path_component, full_path)
        THEN [base_url |-> full_path, base_path |-> <<>>, warning |-> TRUE]
        ELSE LET k == Min(Occurrences(api_path_component, full_path))
             IN [base_url |-> SubSeq(full_path, 1, k - 1) \o api_path_component,
                 base_path |-> SubSeq(full_path, k + Len(api_path_component),
                                      Len(full_path)),
                 warning |-> FALSE]

ComputePaths(package, version, doc) ==
    LET full_path == FullPath(doc)
        api_path_component == JoinSlash(package, version)
    IN  IF ~Contains(api_path_component, full_path)
        THEN [base_url |-> full_path, base_path |-> <<>>, warning |-> TRUE]
        ELSE LET parts == rpartition(full_path, api_path_component)
             IN  [base_url |-> parts[1] \o api_path_component,
                  base_path |-> parts[3], warning |-> FALSE]

----------------------------------------------------------------------------
(* Input domains *)

SchemaPool == <<"Beta", "Alpha", "Gamma", "Delta">>
SchemaNames == {SchemaPool[k] : k \in 1..MaxSchemas}

ResourcePool == <<"users", "api", "items", "zones">>
ResourceNames == {ResourcePool[k] : k \in 1..MaxResources}

\* Python's order on the resource names (str comparison)
NameOrder == <<"api", "items", "users", "zones">>
Rank(name) == CHOOSE k \in 1..Len(NameOrder) : NameOrder[k] = name

\* a resource definition is reduced to the OAuth scopes its methods refer to
ResourceDef(name) ==
    CASE name = "users" -> {"read-only"}
      [] name = "api"   -> {"read-only", "admin"}
      [] name = "items" -> {}
      [] OTHER          -> {"admin"}

\* Python's order on the scope names
ScopeOrder == <<"admin", "legacy", "read-only", "write">>
ScopeRank(s) == CHOOSE k \in 1..Len(ScopeOrder) : ScopeOrder[k] = s

Absent == [present |-> FALSE, map |-> {}]
Mapping(m) == [present |-> TRUE, map |-> m]

\* dict.get(key, default) on an optional mapping
Get(entry, default) == IF entry.present THEN entry.map ELSE default

\* the 'trace' parameter _StandardQueryParametersSchema synthesizes
TraceParameter == "trace: string, query, TRACE_HELP"

ParameterChoices ==
    {Absent, Mapping({}), Mapping({<<"alt", "alt: string, query">>}),
     Mapping({<<"alt", "alt: string, query">>, <<"trace", "trace: boolean">>})}

\* top-level methods: absent, an empty mapping, or one method with its scopes
MethodChoices ==
    {Absent, Mapping({}), Mapping({<<"get", {"read-only", "write"}>>})}

\* rootUrl and servicePath of the documents of the command runs
DocUrls ==
    {<<Origin \o <<"/">>, <<"a", "/", "b", "/">> >>,
     <<Origin \o <<"/", "a", "/", "b", "/">>, <<"a">> >>,
     <<Origin \o <<"/">>, <<"b", "/">> >>,
     <<Origin \o <<"/">>, <<"a", "/", "b">> >>}

Docs ==
    {[parameters |-> p, schemas |-> s,
      resources |-> {<<n, ResourceDef(n)>> : n \in r},
      methods |-> m, rootUrl |-> u[1], servicePath |-> u[2]] :
        p \in ParameterChoices, s \in SUBSET SchemaNames,
        r \in SUBSET ResourceNames, m \in MethodChoices, u \in DocUrls}

NoDoc ==
    [parameters |-> Absent, schemas |-> {}, resources |-> {},
     methods |-> Absent, rootUrl |-> <<>>, servicePath |-> <<>>]

\* the orders in which a dict with these keys can be iterated
Perms(S) ==
    {q \in [1..Cardinality(S) -> S] :
        \A i, j \in 1..Cardinality(S) : i # j => q[i] # q[j]}

Keys(m) == {e[1] : e \in m}
Value(m, k) == (CHOOSE e \in m : e[1] = k)[2]
Put(m, k, v) == {e \in m : e[1] # k} \cup {<<k, v>>}

\* FLAGS.scope
InitialScopes == {<<>>, <<"read-only", "legacy">>}

ClientInfos ==
    {[package |-> <<"a">>, version |-> <<"b">>, url_version |-> <<"b">>,
      scopes |-> sc] : sc \in InitialScopes}

\* the value of a field that has not been assigned
NoRefs == [message |-> 0, command |-> 0, service |-> 0]

----------------------------------------------------------------------------
(* Python's sorted(), by insertion *)

RECURSIVE InsertName(_, _)
InsertName(x, s) ==
    IF s = <<>> THEN <<x>>
    ELSE IF Rank(x) <= Rank(Head(s)) THEN <<x>> \o s
    ELSE <<Head(s)>> \o InsertName(x, Tail(s))

\* sorted(names)
RECURSIVE SortNames(_)
SortNames(s) ==
    IF s = <<>> THEN <<>> ELSE InsertName(Head(s), SortNames(Tail(s)))

RECURSIVE InsertScope(_, _)
InsertScope(x, s) ==
    IF s = <<>> THEN <<x>>
    ELSE IF ScopeRank(x) <= ScopeRank(Head(s)) THEN <<x>> \o s
    ELSE <<Head(s)>> \o InsertScope(x, Tail(s))

\* sorted(scopes)
RECURSIVE SortScopes(_)
SortScopes(s) ==
    IF s = <<>> THEN <<>> ELSE InsertScope(Head(s), SortScopes(Tail(s)))

RECURSIVE SetToSeq(_)
SetToSeq(S) ==
    IF S = {} THEN <<>>
    ELSE LET x == CHOOSE y \in S : TRUE IN <<x>> \o SetToSeq(S \ {x})

Range(s) == {s[k] : k \in 1..Len(s)}

NoDuplicates(s) == \A i, j \in 1..Len(s) : i # j => s[i] # s[j]

----------------------------------------------------------------------------
(* The registries, as far as DescriptorGenerator uses them *)

\* MessageRegistry.AddDescriptorFromSchema: the schema id becomes known
RegisterDescriptor(registry, schema_id) == registry \cup {schema_id}

\* MessageRegistry.LookupDescriptorOrDie: dies unless the id is known
DescriptorKnown(registry, schema_id) == schema_id \in registry

\* ServiceRegistry.AddServiceFromResource: scopes of the resource's methods
CollectScopes(all_scopes, resource_def) == all_scopes \cup resource_def

\* ServiceRegistry.scopes: every scope referenced, once, as a sorted list
ServiceScopes(all_scopes) == SortScopes(SetToSeq(all_scopes))

\* the scopes the methods of a top-level 'methods' mapping refer to
MethodScopes(methods) == UNION {e[2] : e \in methods}

Event(op, arg) == [op |-> op, arg |-> arg]

----------------------------------------------------------------------------
(* _StandardQueryParametersSchema: the schema it returns and the document   *)
(* it leaves behind ('properties' is the document's own mapping when the    *)
(* document has one, a fresh mapping otherwise).                            *)

StandardQueryParametersSchema(doc) ==
    LET properties == Put(Get(doc.parameters, {}), "trace", TraceParameter)
    IN  [schema |-> [id |-> "StandardQueryParameters",
                     properties |-> properties],
         doc |-> IF doc.parameters.present
                 THEN [doc EXCEPT !.parameters = Mapping(properties)]
                 ELSE doc]

----------------------------------------------------------------------------
(* Variable groups *)

sourceVars == <<source_failure, fetches>>
docVars == <<discovery_doc, doc_passed, schema_iter, resource_iter>>
infoVars == <<heap, info_passed, self_client_info, registry_client_info>>
pathVars == <<base_url, base_path, warned>>
registryVars == <<message_registry, global_params, services, registry_scopes>>
outputVars == <<files, emitted>>
rerunVars == <<run, first_log>>

\* an uncaught exception ends the command
Raise(kind, where) ==
    /\ pc' = "done"
    /\ outcome' = kind
    /\ failed_in' = where

Running == UNCHANGED <<outcome, failed_in>>

----------------------------------------------------------------------------
(* gen_client.py: _GetCodegenFromFlags, up to the DescriptorGenerator call *)

\* the document arrives, with the iteration orders of its two mappings
Loaded(doc) ==
    /\ discovery_doc' = doc
    /\ doc_passed' = doc
    /\ schema_iter' \in Perms(doc.schemas)
    /\ resource_iter' \in Perms(Keys(doc.resources))

\* FLAGS.discovery_url is set: util.FetchDiscoveryDoc
FetchDiscoveryDoc ==
    /\ pc = "start"
    /\ fetches' = fetches + 1
    /\ \/ /\ \E doc \in Docs : Loaded(doc)
          /\ pc' = "loaded"
          /\ UNCHANGED <<source_failure, codegen>>
       \/ /\ source_failure' = "CommunicationError"
          /\ codegen' = "none"
          /\ pc' = "returned"
          /\ UNCHANGED docVars
    /\ Running
    /\ UNCHANGED <<command, infoVars, use_proto2, pathVars, registryVars, idx,
                   log, outputVars, rerunVars>>

\* FLAGS.discovery_url is not set: json.load(open(infile))
LoadInfile ==
    /\ pc = "start"
    /\ fetches' = fetches + 1
    /\ \/ /\ \E doc \in Docs : Loaded(doc)
          /\ pc' = "loaded"
          /\ Running
          /\ UNCHANGED source_failure
       \/ /\ \E kind \in {"IOError", "ValueError"} :
                /\ source_failure' = kind
                /\ Raise(kind, "_GetCodegenFromFlags")
          /\ UNCHANGED docVars
    /\ UNCHANGED <<command, codegen, infoVars, use_proto2, pathVars,
                   registryVars, idx, log, outputVars, rerunVars>>

\* ClientInfo.Create, the output directory test, and the arguments of the
\* DescriptorGenerator call
CreateClientInfo ==
    /\ pc = "loaded"
    /\ \/ /\ \E info \in ClientInfos :
                /\ heap' = <<info>>
                /\ info_passed' = info
          /\ use_proto2' \in BOOLEAN
          /\ pc' = "init"
          /\ Running
       \/ /\ Raise("ConfigurationValueError", "_GetCodegenFromFlags")
          /\ UNCHANGED <<heap, info_passed, use_proto2>>
    /\ UNCHANGED <<command, sourceVars, docVars, self_client_info,
                   registry_client_info, pathVars, registryVars, idx, log,
                   codegen, outputVars, rerunVars>>

----------------------------------------------------------------------------
(* gen_client_lib.py: DescriptorGenerator.__init__ *)

\* the order of the schema loop: schemas.iteritems()
SchemaOrder(iteration) == iteration

\* the resource loop without sorted()
ResourceOrder_Unsorted(iteration) == iteration

\* the order of the resource loop: sorted(services.iteritems())
ResourceOrder(iteration) == SortNames(iteration)

\* the fields, the base URL and path, and the MessageRegistry
InitFields ==
    /\ pc = "init"
    /\ self_client_info' = 1
    /\ LET info == heap[1]
           paths == ComputePaths(info.package, info.url_version, discovery_doc)
       IN  /\ base_url' = paths.base_url
           /\ base_path' = paths.base_path
           /\ warned' = paths.warning
    /\ registry_client_info' = [registry_client_info EXCEPT !.message = 1]
    /\ idx' = 1
    /\ pc' = "schemas"
    /\ Running
    /\ UNCHANGED <<command, sourceVars, docVars, heap, info_passed, use_proto2,
                   registryVars, log, codegen, outputVars, rerunVars>>

\* one turn of the schema loop whose exception is swallowed
AddSchema_Swallow ==
    /\ pc = "schemas"
    /\ idx <= Len(SchemaOrder(schema_iter))
    /\ LET schema_name == SchemaOrder(schema_iter)[idx]
       IN  \/ /\ message_registry' =
                     RegisterDescriptor(message_registry, schema_name)
              /\ log' = Append(log, Event("AddDescriptorFromSchema", schema_name))
              /\ Running
           \/ /\ outcome' = "NamingCollisionError"
              /\ failed_in' = "AddDescriptorFromSchema"
              /\ UNCHANGED <<message_registry, log>>
    /\ idx' = idx + 1
    /\ pc' = "schemas"
    /\ UNCHANGED <<command, sourceVars, docVars, infoVars, use_proto2,
                   pathVars, global_params, services, registry_scopes,
                   codegen, outputVars, rerunVars>>

\* one turn of the schema loop
AddSchema ==
    /\ pc = "schemas"
    /\ idx <= Len(SchemaOrder(schema_iter))
    /\ LET schema_name == SchemaOrder(schema_iter)[idx]
       IN  \/ /\ message_registry' =
                     RegisterDescriptor(message_registry, schema_name)
              /\ log' = Append(log, Event("AddDescriptorFromSchema", schema_name))
              /\ idx' = idx + 1
              /\ pc' = "schemas"
              /\ Running
           \/ /\ Raise("NamingCollisionError", "AddDescriptorFromSchema")
              /\ UNCHANGED <<message_registry, log, idx>>
    /\ UNCHANGED <<command, sourceVars, docVars, infoVars, use_proto2,
                   pathVars, global_params, services, registry_scopes,
                   codegen, outputVars, rerunVars>>

\* the synthetic schema is built but never registered
AddStandardQuerySchema_Skipped ==
    /\ pc = "schemas"
    /\ idx > Len(SchemaOrder(schema_iter))
    /\ discovery_doc' = StandardQueryParametersSchema(discovery_doc).doc
    /\ pc' = "globals"
    /\ Running
    /\ UNCHANGED <<command, sourceVars, doc_passed, schema_iter, resource_iter,
                   infoVars, use_proto2, pathVars, registryVars, idx, log,
                   codegen, outputVars, rerunVars>>

\* the synthetic schema of the global parameters, built and registered
AddStandardQuerySchema ==
    /\ pc = "schemas"
    /\ idx > Len(SchemaOrder(schema_iter))
    /\ LET built == StandardQueryParametersSchema(discovery_doc)
       IN  /\ discovery_doc' = built.doc
           /\ \/ /\ message_registry' =
                        RegisterDescriptor(message_registry, built.schema.id)
                 /\ log' = Append(log, Event("AddDescriptorFromSchema",
                                             built.schema.id))
                 /\ pc' = "globals"
                 /\ Running
              \/ /\ Raise("NamingCollisionError", "AddDescriptorFromSchema")
                 /\ UNCHANGED <<message_registry, log>>
    /\ UNCHANGED <<command, sourceVars, doc_passed, schema_iter, resource_iter,
                   infoVars, use_proto2, pathVars, global_params, services,
                   registry_scopes, idx, codegen, outputVars, rerunVars>>

\* the CommandRegistry and its global parameters, then the ServiceRegistry
AddGlobalParameters ==
    /\ pc = "globals"
    /\ IF DescriptorKnown(message_registry, "StandardQueryParameters")
       THEN /\ global_params' = global_params \cup {"StandardQueryParameters"}
            /\ log' = Append(log, Event("AddGlobalParameters",
                                        "StandardQueryParameters"))
            /\ registry_client_info' =
                   [registry_client_info EXCEPT !.command = self_client_info,
                                                !.service = self_client_info]
            /\ idx' = 1
            /\ pc' = "services"
            /\ Running
       ELSE /\ Raise("ResolutionError", "LookupDescriptorOrDie")
            /\ registry_client_info' =
                   [registry_client_info EXCEPT !.command = self_client_info]
            /\ UNCHANGED <<global_params, log, idx>>
    /\ UNCHANGED <<command, sourceVars, docVars, heap, info_passed,
                   self_client_info,
                   use_proto2, pathVars, message_registry, services,
                   registry_scopes, codegen, outputVars, rerunVars>>

\* one turn of the resource loop
AddService ==
    /\ pc = "services"
    /\ idx <= Len(ResourceOrder(resource_iter))
    /\ LET service_name == ResourceOrder(resource_iter)[idx]
           methods == Value(discovery_doc.resources, service_name)
       IN  \/ /\ services' = Append(services, service_name)
              /\ registry_scopes' = CollectScopes(registry_scopes, methods)
              /\ log' = Append(log, Event("AddServiceFromResource", service_name))
              /\ idx' = idx + 1
              /\ pc' = "services"
              /\ Running
           \/ /\ Raise("ResolutionError", "AddServiceFromResource")
              /\ UNCHANGED <<services, registry_scopes, log, idx>>
    /\ UNCHANGED <<command, sourceVars, docVars, infoVars, use_proto2,
                   pathVars, message_registry, global_params, codegen,
                   outputVars, rerunVars>>

\* the top-level methods become the service 'api'
AddApiService ==
    /\ pc = "services"
    /\ idx > Len(ResourceOrder(resource_iter))
    /\ LET api_methods == Get(discovery_doc.methods, {})
       IN  IF api_methods # {}
           THEN \/ /\ services' = Append(services, "api")
                   /\ registry_scopes' =
                          CollectScopes(registry_scopes, MethodScopes(api_methods))
                   /\ log' = Append(log, Event("AddServiceFromResource", "api"))
                   /\ pc' = "scopes"
                   /\ Running
                \/ /\ Raise("ResolutionError", "AddServiceFromResource")
                   /\ UNCHANGED <<services, registry_scopes, log>>
           ELSE /\ pc' = "scopes"
                /\ Running
                /\ UNCHANGED <<services, registry_scopes, log>>
    /\ UNCHANGED <<command, sourceVars, docVars, infoVars, use_proto2,
                   pathVars, message_registry, global_params, idx, codegen,
                   outputVars, rerunVars>>

\* the scopes are written into the ClientInfo the registries hold
ReplaceScopes_InPlace ==
    /\ pc = "scopes"
    /\ heap' = [heap EXCEPT ![self_client_info].scopes =
                                ServiceScopes(registry_scopes)]
    /\ log' = Append(log, Event("_replace", "scopes"))
    /\ codegen' = "built"
    /\ pc' = "returned"
    /\ Running
    /\ UNCHANGED <<command, sourceVars, docVars, info_passed, self_client_info,
                   registry_client_info, use_proto2, pathVars, registryVars,
                   idx, outputVars, rerunVars>>

\* the scopes found are added to the scopes the ClientInfo came with
ReplaceScopes_Extend ==
    /\ pc = "scopes"
    /\ heap' = Append(heap, [heap[self_client_info] EXCEPT !.scopes =
                                 @ \o ServiceScopes(registry_scopes)])
    /\ self_client_info' = Len(heap) + 1
    /\ log' = Append(log, Event("_replace", "scopes"))
    /\ codegen' = "built"
    /\ pc' = "returned"
    /\ Running
    /\ UNCHANGED <<command, sourceVars, docVars, info_passed,
                   registry_client_info, use_proto2, pathVars, registryVars,
                   idx, outputVars, rerunVars>>

\* client_info._replace(scopes=...): a new tuple; the constructor returns
ReplaceScopes ==
    /\ pc = "scopes"
    /\ heap' = Append(heap, [heap[self_client_info] EXCEPT !.scopes =
                                 ServiceScopes(registry_scopes)])
    /\ self_client_info' = Len(heap) + 1
    /\ log' = Append(log, Event("_replace", "scopes"))
    /\ codegen' = "built"
    /\ pc' = "returned"
    /\ Running
    /\ UNCHANGED <<command, sourceVars, docVars, info_passed,
                   registry_client_info, use_proto2, pathVars, registryVars,
                   idx, outputVars, rerunVars>>

----------------------------------------------------------------------------
(* gen_client.py: what the commands do with the codegen object *)

ProtoFiles == {"messages_proto_file_name", "services_proto_file_name"}
ProtoCalls == {"WriteMessagesProtoFile", "WriteServicesProtoFile"}
GeneratedFiles == {"messages_file_name", "client_file_name", "cli_file_name"}
GeneratedCalls == {"WriteMessagesFile", "WriteClientLibrary", "WriteCli"}

\* GenerateClient.Run: codegen is None
ClientNoCodegen ==
    /\ pc = "returned"
    /\ command = "client"
    /\ codegen = "none"
    /\ Raise("exit128", "Run")
    /\ UNCHANGED <<command, sourceVars, docVars, infoVars, use_proto2,
                   pathVars, registryVars, idx, log, codegen, outputVars,
                   rerunVars>>

\* GenerateClient.Run: _WriteGeneratedFiles
WriteGeneratedFiles ==
    /\ pc = "returned"
    /\ command = "client"
    /\ codegen # "none"
    /\ files' = files \cup GeneratedFiles
                      \cup (IF use_proto2 THEN ProtoFiles ELSE {})
    /\ emitted' = emitted \cup GeneratedCalls
                          \cup (IF use_proto2 THEN ProtoCalls ELSE {})
    /\ pc' = "write_init"
    /\ Running
    /\ UNCHANGED <<command, sourceVars, docVars, infoVars, use_proto2,
                   pathVars, registryVars, idx, log, codegen, rerunVars>>

\* GenerateClient.Run: _WriteInit, and the command returns
WriteInit ==
    /\ pc = "write_init"
    /\ files' = files \cup {"__init__.py"}
    /\ emitted' = emitted \cup {"WriteInit"}
    /\ pc' = "done"
    /\ outcome' = "ok"
    /\ UNCHANGED <<command, failed_in, sourceVars, docVars, infoVars,
                   use_proto2, pathVars, registryVars, idx, log, codegen,
                   rerunVars>>

\* GenerateProto.Run: _WriteProtoFiles(codegen), codegen None or not
WriteProtoFiles ==
    /\ pc = "returned"
    /\ command = "proto"
    /\ IF codegen = "none"
       THEN /\ Raise("AttributeError", "_WriteProtoFiles")
            /\ UNCHANGED outputVars
       ELSE /\ files' = files \cup ProtoFiles
            /\ emitted' = emitted \cup ProtoCalls
            /\ pc' = "done"
            /\ outcome' = "ok"
            /\ UNCHANGED failed_in
    /\ UNCHANGED <<command, sourceVars, docVars, infoVars, use_proto2,
                   pathVars, registryVars, idx, log, codegen, rerunVars>>

----------------------------------------------------------------------------
(* The command runs *)

Idle ==
    /\ outcome = "running"
    /\ failed_in = "none"
    /\ source_failure = "none"
    /\ fetches = 0
    /\ schema_iter = <<>>
    /\ resource_iter = <<>>
    /\ self_client_info = 0
    /\ registry_client_info = NoRefs
    /\ use_proto2 = FALSE
    /\ base_url = <<>>
    /\ base_path = <<>>
    /\ warned = FALSE
    /\ message_registry = {}
    /\ global_params = {}
    /\ services = <<>>
    /\ registry_scopes = {}
    /\ idx = 0
    /\ log = <<>>
    /\ codegen = "unset"
    /\ files = {}
    /\ emitted = {}
    /\ run = 1
    /\ first_log = <<>>

Init ==
    /\ pc = "start"
    /\ command \in {"client", "proto"}
    /\ discovery_doc = NoDoc
    /\ doc_passed = NoDoc
    /\ heap = <<>>
    /\ info_passed = [package |-> <<>>, version |-> <<>>,
                      url_version |-> <<>>, scopes |-> <<>>]
    /\ Idle

Construct ==
    \/ InitFields
    \/ AddSchema
    \/ AddStandardQuerySchema
    \/ AddGlobalParameters
    \/ AddService
    \/ AddApiService
    \/ ReplaceScopes

Next ==
    \/ FetchDiscoveryDoc
    \/ LoadInfile
    \/ CreateClientInfo
    \/ Construct
    \/ ClientNoCodegen
    \/ WriteGeneratedFiles
    \/ WriteInit
    \/ WriteProtoFiles

Spec == Init /\ [][Next]_vars

----------------------------------------------------------------------------
(* _ComputePaths on its own: the constructor's first step, for every        *)
(* package, version, rootUrl and servicePath within the bounds.             *)

RootPaths ==
    {r \in Strings(PathChars, 0, MaxRootPath) : r = <<>> \/ r[1] = "/"}

ServicePaths == Strings(PathChars, 0, MaxServicePath)

InitPaths ==
    /\ pc = "init"
    /\ command = "client"
    /\ \E package \in Names, version \in Names :
           /\ heap = <<[package |-> package, version |-> version,
                        url_version |-> version, scopes |-> <<>>]>>
           /\ info_passed = heap[1]
    /\ \E r \in RootPaths, sp \in ServicePaths :
           /\ discovery_doc = [NoDoc EXCEPT !.rootUrl = Origin \o r,
                                            !.servicePath = sp]
           /\ doc_passed = discovery_doc
    /\ Idle

NextPaths == InitFields

SpecPaths == InitPaths /\ [][NextPaths]_vars

----------------------------------------------------------------------------
(* Construction run a second time on an equal document and configuration,   *)
(* as a new process would: the mappings may iterate in another order.       *)

Rerun ==
    /\ pc = "returned"
    /\ codegen = "built"
    /\ run = 1
    /\ run' = 2
    /\ first_log' = log
    /\ discovery_doc' = doc_passed
    /\ schema_iter' \in Perms(doc_passed.schemas)
    /\ resource_iter' \in Perms(Keys(doc_passed.resources))
    /\ heap' = <<heap[1]>>
    /\ self_client_info' = 0
    /\ registry_client_info' = NoRefs
    /\ base_url' = <<>>
    /\ base_path' = <<>>
    /\ warned' = FALSE
    /\ message_registry' = {}
    /\ global_params' = {}
    /\ services' = <<>>
    /\ registry_scopes' = {}
    /\ idx' = 0
    /\ log' = <<>>
    /\ codegen' = "unset"
    /\ pc' = "init"
    /\ UNCHANGED <<command, outcome, failed_in, sourceVars, doc_passed,
                   info_passed, use_proto2, outputVars>>

NextRerun ==
    \/ FetchDiscoveryDoc
    \/ LoadInfile
    \/ CreateClientInfo
    \/ Construct
    \/ Rerun

SpecRerun == Init /\ [][NextRerun]_vars

----------------------------------------------------------------------------
(* Properties *)

Built == codegen = "built"

\* the names handed to the registry operation op, in call order
RECURSIVE Calls(_, _)
Calls(events, op) ==
    IF events = <<>> THEN <<>>
    ELSE (IF Head(events).op = op THEN <<Head(events).arg>> ELSE <<>>)
         \o Calls(Tail(events), op)

\* the stage of construction a registry operation belongs to
Phase(event) ==
    CASE event.op = "AddDescriptorFromSchema" ->
             IF event.arg = "StandardQueryParameters" THEN 2 ELSE 1
      [] event.op = "AddGlobalParameters" -> 3
      [] event.op = "AddServiceFromResource" -> 4
      [] OTHER -> 5

HasPhase(n) == \E k \in 1..Len(log) : Phase(log[k]) = n

\* C1: the registry operations of a construction happen in the order
\* document schemas, StandardQueryParameters schema, AddGlobalParameters,
\* AddServiceFromResource calls, replacement of the scopes; each stage is
\* entered only after the one before it was done, and the lookup of
\* 'StandardQueryParameters' never dies.
C1_ConstructionOrder ==
    /\ \A i, j \in 1..Len(log) : i < j => Phase(log[i]) <= Phase(log[j])
    /\ HasPhase(3) => HasPhase(2)
    /\ HasPhase(4) => HasPhase(3)
    /\ HasPhase(5) => HasPhase(3)
    /\ HasPhase(3) => DescriptorKnown(message_registry, "StandardQueryParameters")
    /\ failed_in # "LookupDescriptorOrDie"

C1_Witness ==
    /\ Built
    /\ \A n \in 1..5 : HasPhase(n)

\* C2: after construction the document the discovery_doc accessor returns
\* equals the document that was passed in, whatever the document.
C2_DocumentUnchanged == Built => discovery_doc = doc_passed

\* C3: a second construction on an equal document and configuration hands
\* the schemas and resources to the registries in the same sequence as the
\* first, whatever the iteration orders of the two mappings.
C3_RerunSameSequence == (run = 2 /\ Built) => log = first_log

\* C4: AddServiceFromResource is called once per key of 'resources', in
\* ascending order of the name, and then once more for 'api' exactly when
\* the document has a non-empty top-level 'methods'.
C4_ServicesSortedThenApi ==
    LET called == Calls(log, "AddServiceFromResource")
        keys == Keys(doc_passed.resources)
        n == Cardinality(keys)
        has_api == Get(doc_passed.methods, {}) # {}
    IN  /\ \A i, j \in 1..Len(called) :
               (i < j /\ j <= n) => Rank(called[i]) < Rank(called[j])
        /\ \A i \in 1..Len(called) : i <= n => called[i] \in keys
        /\ Len(called) > n => (has_api /\ Len(called) = n + 1
                                       /\ called[n + 1] = "api")
        /\ pc \in {"scopes", "returned", "write_init"} \/ Built =>
               Len(called) = n + (IF has_api THEN 1 ELSE 0)

C4_Witness ==
    /\ Built
    /\ Len(resource_iter) = 2
    /\ Rank(resource_iter[1]) > Rank(resource_iter[2])
    /\ Len(Calls(log, "AddServiceFromResource")) = 3

\* every scope a method of the document refers to
ReferencedScopes(doc) ==
    UNION {e[2] : e \in doc.resources} \cup MethodScopes(Get(doc.methods, {}))

\* C5: after construction the scopes of the ClientInfo the accessor returns
\* are the scopes referenced by the registered methods, each once, in place
\* of the scopes it was created with; the replacement happens once, after
\* the last AddServiceFromResource call.
C5_ScopesAreServiceUnion ==
    Built =>
        LET scopes == heap[self_client_info].scopes
        IN  /\ Range(scopes) = ReferencedScopes(doc_passed)
            /\ NoDuplicates(scopes)
            /\ Len(Calls(log, "_replace")) = 1
            /\ log[Len(log)].op = "_replace"

C5_Witness ==
    /\ Built
    /\ info_passed.scopes # <<>>
    /\ Len(Calls(log, "AddServiceFromResource")) = 3
    /\ "legacy" \notin Range(heap[self_client_info].scopes)
    /\ "read-only" \in Range(heap[self_client_info].scopes)

ConstructionFailed ==
    failed_in \in {"AddDescriptorFromSchema", "LookupDescriptorOrDie",
                   "AddServiceFromResource"}

\* C6: a failing registry step ends the command at once, with no codegen
\* object and no output; and output is written only once construction has
\* run to its end.
C6_AllOrNothing ==
    /\ ConstructionFailed =>
           /\ pc = "done"
           /\ ~ENABLED Next
           /\ codegen = "unset"
           /\ files = {}
           /\ emitted = {}
    /\ (files # {} \/ emitted # {}) =>
           /\ Built
           /\ ~ConstructionFailed
           /\ log # <<>>
           /\ log[Len(log)].op = "_replace"

C6_Witness ==
    /\ failed_in = "AddServiceFromResource"
    /\ Len(Calls(log, "AddServiceFromResource")) >= 1
    /\ pc = "done"

\* C7: when the discovery source fails, nothing is constructed, emitted or
\* written, the source is read once, and the command ends with an error
\* reported by the code that reads the source, not by a later stage.
C7_SourceFailureReported ==
    source_failure # "none" =>
        /\ ~Built
        /\ self_client_info = 0
        /\ log = <<>>
        /\ files = {}
        /\ emitted = {}
        /\ fetches = 1
        /\ pc = "done" =>
               /\ outcome # "ok"
               /\ failed_in \in {"_GetCodegenFromFlags", "Run"}

\* the joined URL and the component _ComputePaths looks for
JoinedUrl == FullPath(doc_passed)
Component == JoinSlash(info_passed.package, info_passed.url_version)
PathsComputed == self_client_info # 0

\* C8: when the component does not occur in the joined URL, _ComputePaths
\* warns and returns the whole URL with an empty suffix, and construction
\* goes on with these values.
C8_MissingComponentIsNotFatal ==
    (PathsComputed /\ ~Contains(Component, JoinedUrl)) =>
        /\ base_url = JoinedUrl
        /\ base_path = <<>>
        /\ warned
        /\ pc # "init"
        /\ outcome = "running" \/ ConstructionFailed \/ Built

C8_Witness ==
    /\ Built
    /\ warned
    /\ ~Contains(Component, JoinedUrl)
    /\ HasPhase(4)

\* C9: base_url followed by base_path is the joined URL; when the component
\* occurs in it, base_url ends with the component, base_path does not
\* contain it, and base_path is empty if the URL ends with the component.
C9_PathsSplitAtLastComponent ==
    PathsComputed =>
        /\ base_url \o base_path = JoinedUrl
        /\ Contains(Component, JoinedUrl) =>
               /\ EndsWith(base_url, Component)
               /\ ~Contains(Component, base_path)
               /\ EndsWith(JoinedUrl, Component) => base_path = <<>>

C9_Witness ==
    /\ PathsComputed
    /\ Cardinality(Occurrences(Component, JoinedUrl)) >= 2
    /\ EndsWith(JoinedUrl, Component)

\* C10: the ClientInfo that was passed in, which the registries hold, keeps
\* its scopes and its other fields; the ClientInfo the accessor returns
\* differs from it in the scopes at most.
C10_ScopesReplacedNotMutated ==
    PathsComputed =>
        /\ heap[1] = info_passed
        /\ \A r \in {registry_client_info.message, registry_client_info.command,
                     registry_client_info.service} : r \in {0, 1}
        /\ LET returned == heap[self_client_info]
           IN  /\ returned.package = info_passed.package
               /\ returned.version = info_passed.version
               /\ returned.url_version = info_passed.url_version

C10_Witness ==
    /\ Built
    /\ registry_client_info.service = 1
    /\ heap[self_client_info].scopes # info_passed.scopes

====
